---------------------------- MODULE Spec2Model ----------------------------
(***************************************************************************)
(* A model of rounded-ass (src/lib/roundedAss.js): the conversion of timed *)
(* subtitle cues into an ASS document with one rounded background box per  *)
(* cue.                                                                    *)
(*                                                                         *)
(* Representation of the program's values                                  *)
(*   - a time is a whole number of milliseconds; the program holds it as   *)
(*     the double ms / 1000 (seconds);                                     *)
(*   - a length in pixels is a whole number of units of 1/Scale pixel, so  *)
(*     that every product and quotient the program forms (x0.98, x0.9,     *)
(*     x0.6, x1.2, /2, /4, /1080, ratios in hundredths) is exact;          *)
(*   - a text is a sequence of UTF-16 code units (numbers);                *)
(*   - a value that may be undefined (an option the caller left out, a     *)
(*     null result) is <<>> when absent and <<v>> when present.            *)
(***************************************************************************)
EXTENDS Integers, Sequences, FiniteSets, TLC

VARIABLES
    pc,                 \* position of the run inside createRoundedAss
    options,            \* the caller's options object
    videoPath,          \* the caller's videoPath argument (<<>> when not given)
    assMeasureInstalled,\* whether require('ass-measure') can load the module
    parsed,             \* the cue data subtitle.parseSync yields for the file
    subtitles,          \* parseSubtitles' result / the subtitles local
    videoWidth,         \* local videoWidth  (pixels)
    videoHeight,        \* local videoHeight (pixels)
    tempFile,           \* whether the temporary measurement document exists
    subtitleDimensions, \* local subtitleDimensions: <<>> (null) or <<list>>
    idx,                \* loop index of the cue loop (0-based, as in the code)
    events,             \* local events: the Dialogue lines pushed so far
    boxes,              \* per cue, the loop body's locals (metrics, box, radius)
    measuredCount,      \* local measuredCount
    estimatedCount,     \* local estimatedCount
    output,             \* the output file: <<>> until written, then <<document>>
    thrown,             \* the error createRoundedAss rejected with ("" = none)
    probeLog,           \* what each run of ffprobe produced, in order
    measurerLog,        \* what each call of the ass-measure addon produced
    platform,           \* process.platform
    call,               \* arguments of a directly called exported function
    result,             \* its return value
    clock,              \* Date.now() of the machine (ms)
    tmpdir,             \* os.tmpdir(): per file temp-<t>.ass its content
    runs                \* conversion runs of other processes on the machine

vars == <<pc, options, videoPath, assMeasureInstalled, parsed, subtitles,
          videoWidth, videoHeight, tempFile, subtitleDimensions, idx, events,
          boxes, measuredCount, estimatedCount, output, thrown,
          probeLog, measurerLog, platform, call, result, clock, tmpdir, runs>>

-----------------------------------------------------------------------------
(* Bounds of the model *)

\* number of conversion runs executing concurrently
NumRuns == 2

\* Date.now() ranges over 0 .. MaxClock
MaxClock == 2

\* longest cue sequence of a run
MaxCues == 2

\* longest text handed to detectScript when it is called directly
MaxTextLen == 3

\* times handed to formatAssTime range over 0 .. MaxMsOffset ms after each
\* of TimeBases
MaxMsOffset == 25

\* canvas heights handed to determineBottomMargin range over 1 .. this
MaxCanvasHeight == 1400

\* longest text handed to calculateTextDimensions when it is called directly
MaxEstimateLen == 4

\* longest cue sequence handed to parseSubtitles when it is called directly
MaxTimingCues == 3

\* cue times handed to parseSubtitles range over 0 .. MaxTick ticks of 50 ms
MaxTick == 3

-----------------------------------------------------------------------------
(* Values *)

\* units per pixel: 2^5 * 3^3 * 5^2
Scale == 100 * 216

Px(n) == n * Scale

Min(a, b) == IF a < b THEN a ELSE b

Max(a, b) == IF a > b THEN a ELSE b

\* JavaScript's  o || d  for a number that may be undefined: 0 is falsy
OrNumber(o, d) == IF o = <<>> \/ o[1] = 0 THEN d ELSE o[1]

\* JavaScript's  o !== undefined ? o : d
DefinedOr(o, d) == IF o = <<>> THEN d ELSE o[1]

\* code units the program looks for
LF == 10
Space == 32
Backslash == 92
LetterN == 78
OpenBrace == 123
CloseBrace == 125

-----------------------------------------------------------------------------
(* parseSubtitles *)

\* text.replace(/\n/g, '\\N')
RECURSIVE ReplaceNewlines(_)
ReplaceNewlines(text) ==
    IF text = <<>> THEN <<>>
    ELSE IF Head(text) = LF
         THEN <<Backslash, LetterN>> \o ReplaceNewlines(Tail(text))
         ELSE <<Head(text)>> \o ReplaceNewlines(Tail(text))

\* parsedSubtitles.map((sub, index) => ({index: index + 1, start: sub.start / 1000, ...}))
ConvertCues(cues) ==
    [k \in 1..Len(cues) |->
        [index |-> k,
         start |-> cues[k].start,
         end   |-> cues[k].end,
         text  |-> ReplaceNewlines(cues[k].text)]]

\* The pairs <<e, s>> of millisecond times (multiples of 50, e <= 1000) with
\* s - e = 100 for which the double subtraction s/1000 - e/1000 rounds below
\* the double 0.1 (IEEE-754 binary64, round to nearest even).
DoubleGapBelowTenth ==
    { <<50, 150>>, <<200, 300>>, <<250, 350>>, <<400, 500>>, <<500, 600>>,
      <<550, 650>>, <<600, 700>>, <<650, 750>>, <<750, 850>>, <<800, 900>>,
      <<850, 950>>, <<900, 1000>> }

\* (a variant of the test below with the threshold 0.05)
GapBelowHalfThreshold(nextStart, currentEnd) == nextStart - currentEnd < 50

\* nextSub.start - currentSub.end < 0.1, on doubles
GapBelowThreshold(nextStart, currentEnd) ==
    \/ nextStart - currentEnd < 100
    \/ /\ nextStart - currentEnd = 100
       /\ <<currentEnd, nextStart>> \in DoubleGapBelowTenth

\* (a variant of the timing pass that moves the end of a cue halfway to the
\* start of the next one)
RECURSIVE FixTimingHalfway(_, _)
FixTimingHalfway(subs, i) ==
    IF i >= Len(subs) THEN subs
    ELSE FixTimingHalfway(
            IF GapBelowThreshold(subs[i + 1].start, subs[i].end)
            THEN [subs EXCEPT ![i].end = (subs[i].end + subs[i + 1].start) \div 2]
            ELSE subs,
            i + 1)

\* for (let i = 0; i < subtitles.length - 1; i++) { ... }, i is 1-based here
RECURSIVE FixTiming(_, _)
FixTiming(subs, i) ==
    IF i >= Len(subs) THEN subs
    ELSE FixTiming(
            IF GapBelowThreshold(subs[i + 1].start, subs[i].end)
            THEN [subs EXCEPT ![i].end = subs[i + 1].start]
            ELSE subs,
            i + 1)

parseSubtitles(cues) == FixTiming(ConvertCues(cues), 1)

-----------------------------------------------------------------------------
(* detectScript, isRtlScript *)

\* /[U+3000-U+9FFF U+F900-U+FAFF]/
IsCjkUnit(c) == (c >= 12288 /\ c <= 40959) \/ (c >= 63744 /\ c <= 64255)

\* /[U+0600-U+06FF]/
IsArabicUnit(c) == c >= 1536 /\ c <= 1791

\* /[U+0590-U+05FF]/
IsHebrewUnit(c) == c >= 1424 /\ c <= 1535

\* (a variant of detectScript that returns the script with the most
\* characters in the text)
detectScriptByFrequency(text) ==
    LET cjk    == Cardinality({ k \in 1..Len(text) : IsCjkUnit(text[k]) })
        arabic == Cardinality({ k \in 1..Len(text) : IsArabicUnit(text[k]) })
        hebrew == Cardinality({ k \in 1..Len(text) : IsHebrewUnit(text[k]) })
    IN  IF cjk > 0 /\ cjk >= arabic /\ cjk >= hebrew THEN "cjk"
        ELSE IF arabic > 0 /\ arabic >= hebrew THEN "arabic"
        ELSE IF hebrew > 0 THEN "hebrew"
        ELSE "latin"

detectScript(text) ==
    IF \E k \in 1..Len(text) : IsCjkUnit(text[k]) THEN "cjk"
    ELSE IF \E k \in 1..Len(text) : IsArabicUnit(text[k]) THEN "arabic"
    ELSE IF \E k \in 1..Len(text) : IsHebrewUnit(text[k]) THEN "hebrew"
    ELSE "latin"

isRtlScript(script) == script \in {"arabic", "hebrew"}

-----------------------------------------------------------------------------
(* calculateTextDimensions *)

\* the code units the regular expression's . does not match
LineTerminators == {10, 13, 8232, 8233}

\* the index of the } that ends the shortest match of /\{.*?\}/ starting at
\* text[1] = {, or 0 when there is no match there
ClosingBrace(text) ==
    LET ends == { k \in 2..Len(text) :
                    /\ text[k] = CloseBrace
                    /\ \A j \in 2..(k - 1) : text[j] \notin LineTerminators }
    IN  IF ends = {} THEN 0 ELSE CHOOSE k \in ends : \A m \in ends : k <= m

\* text.replace(/\{.*?\}/g, '')
RECURSIVE StripTags(_)
StripTags(text) ==
    IF text = <<>> THEN <<>>
    ELSE IF Head(text) = OpenBrace /\ ClosingBrace(text) > 0
         THEN StripTags(SubSeq(text, ClosingBrace(text) + 1, Len(text)))
         ELSE <<Head(text)>> \o StripTags(Tail(text))

\* text.replace(/\\N/g, ' ')
RECURSIVE ReplaceBreaks(_)
ReplaceBreaks(text) ==
    IF text = <<>> THEN <<>>
    ELSE IF Len(text) >= 2 /\ text[1] = Backslash /\ text[2] = LetterN
         THEN <<Space>> \o ReplaceBreaks(SubSeq(text, 3, Len(text)))
         ELSE <<Head(text)>> \o ReplaceBreaks(Tail(text))

\* (text.match(/\\N/g) || []).length
CountBreaks(text) ==
    Cardinality({ k \in 1..(Len(text) - 1) :
                    text[k] = Backslash /\ text[k + 1] = LetterN })

\* (a variant of calculateTextDimensions without the limit of 0.9 of the
\* video width, counting the lines of the cleaned text)
calculateTextDimensionsUncapped(text, fontSize, vWidth) ==
    LET cleanText == ReplaceBreaks(StripTags(text))
        charWidth == fontSize * ((Scale * 6) \div 10)
        lineCount == CountBreaks(cleanText) + 1
        lineHeight == fontSize * ((Scale * 12) \div 10)
    IN  [width  |-> Len(cleanText) * charWidth,
         height |-> lineHeight * lineCount]

\* fontSize and videoWidth in pixels; the result in units
calculateTextDimensions(text, fontSize, vWidth) ==
    LET cleanText == ReplaceBreaks(StripTags(text))
        charWidth == fontSize * ((Scale * 6) \div 10)
        lineCount == CountBreaks(text) + 1
        lineHeight == fontSize * ((Scale * 12) \div 10)
    IN  [width  |-> Min(Len(cleanText) * charWidth, vWidth * ((Scale * 9) \div 10)),
         height |-> lineHeight * lineCount]

-----------------------------------------------------------------------------
(* formatAssTime *)

\* start of the windows of times handed to formatAssTime: 0 s, and 20 ms
\* before 1 min, 2 min and 1 h
TimeBases == {0, 59980, 119980, 3599980}

\* The times ms in TimeBases + 0..59 that end in 5 (a tie between two
\* hundredths) for which secs = (ms / 1000) % 60, as a double, lies below the
\* tie, so that secs.toFixed(2) gives the lower hundredth (IEEE-754 binary64;
\* toFixed rounds the exact value of the double, a tie upwards).
ToFixedRoundsDown ==
    { 15, 45, 59985, 59995, 60025, 60035, 119985, 120005, 120035,
      3599995, 3600015, 3600035 }

\* The fields of `${hours}:${minutes}:${secs.toFixed(2)}` for a time of ms
\* milliseconds: <<hours, minutes, the integer part of secs.toFixed(2), its
\* two decimals>>.  secs.toFixed(2) rounds the seconds to the nearest
\* hundredth: for a whole number of hundredths (ms a multiple of 10) the
\* rounding changes nothing, off a tie the nearest hundredth of the double
\* is the nearest hundredth of ms / 1000, and at a tie ToFixedRoundsDown
\* decides.
formatAssTime(ms) ==
    LET hours   == ms \div 3600000
        minutes == (ms % 3600000) \div 60000
        secs    == ms % 60000
        hundredths == IF secs % 10 = 5 /\ ms \in ToFixedRoundsDown
                      THEN secs \div 10
                      ELSE (secs + 5) \div 10
    IN  <<hours, minutes, hundredths \div 100, hundredths % 100>>

-----------------------------------------------------------------------------
(* determineBorderRadius, determineBottomMargin *)

\* (a variant of determineBorderRadius that returns the requested radius
\* without the per-box limit)
determineBorderRadiusUnclamped(specifiedRadius, halfWidth, halfHeight, vWidth, vHeight) ==
    IF specifiedRadius # <<>>
    THEN IF specifiedRadius[1] > 0 THEN specifiedRadius[1] ELSE 0
    ELSE Min(Min(vWidth, vHeight) * ((Scale * 10) \div 1080),
             Min(halfWidth, halfHeight) \div 4)

\* (a variant of determineBorderRadius that limits the radius to the smaller
\* half-dimension itself, and lets a negative request through)
determineBorderRadiusLoose(specifiedRadius, halfWidth, halfHeight, vWidth, vHeight) ==
    IF specifiedRadius # <<>>
    THEN Min(specifiedRadius[1], Max(Scale, Min(halfHeight, halfWidth)))
    ELSE Min(Min(vWidth, vHeight) * ((Scale * 10) \div 1080),
             Min(halfWidth, halfHeight) \div 4)

\* (a variant of determineBorderRadius whose derived radius is 10 * videoScale
\* within the per-box limit, without the quarter of the smaller half-dimension)
determineBorderRadiusScaleOnly(specifiedRadius, halfWidth, halfHeight, vWidth, vHeight) ==
    LET maxAllowedRadius == Max(Scale, Min(halfHeight, halfWidth) - Scale)
    IN  IF specifiedRadius # <<>>
        THEN IF specifiedRadius[1] > 0
             THEN Min(specifiedRadius[1], maxAllowedRadius)
             ELSE 0
        ELSE Min(Min(vWidth, vHeight) * ((Scale * 10) \div 1080), maxAllowedRadius)

\* specifiedRadius: <<>> or <<units>>; halfWidth, halfHeight in units;
\* vWidth, vHeight in pixels; the result in units
determineBorderRadius(specifiedRadius, halfWidth, halfHeight, vWidth, vHeight) ==
    IF specifiedRadius # <<>>
    THEN LET maxAllowedRadius == Max(Scale, Min(halfHeight, halfWidth) - Scale)
         IN  IF specifiedRadius[1] > 0
             THEN Min(specifiedRadius[1], maxAllowedRadius)
             ELSE 0
    ELSE LET smallerDimension == Min(halfWidth, halfHeight)
             \* 10 * videoScale, videoScale = Math.min(videoWidth, videoHeight) / 1080
             tenVideoScale == Min(vWidth, vHeight) * ((Scale * 10) \div 1080)
             baseRadius == Min(tenVideoScale, smallerDimension \div 4)
             maxAllowedRadius == Max(Scale, smallerDimension - Scale)
         IN  Min(baseRadius, maxAllowedRadius)

\* (a variant of determineBottomMargin that takes a margin of 0 for none)
determineBottomMarginFalsy(specifiedMargin, vHeight) ==
    IF specifiedMargin # <<>> /\ specifiedMargin[1] # 0
    THEN specifiedMargin[1]
    ELSE LET baseMargin == vHeight \div 20
         IN  Max(60, Min(baseMargin, vHeight \div 10))

\* specifiedMargin: <<>> or <<pixels>>; the result in pixels
determineBottomMargin(specifiedMargin, vHeight) ==
    IF specifiedMargin # <<>>
    THEN specifiedMargin[1]
    ELSE LET baseMargin == vHeight \div 20
         IN  Max(60, Min(baseMargin, vHeight \div 10))

-----------------------------------------------------------------------------
(* generateRoundedRectDrawing *)

\* (a variant of generateRoundedRectDrawing that draws the plain rectangle
\* whatever the radius)
generateRectDrawing(halfWidth, halfHeight, borderRadius) ==
    << <<"m", -halfWidth, -halfHeight>>,
       <<"l", halfWidth, -halfHeight>>,
       <<"l", halfWidth, halfHeight>>,
       <<"l", -halfWidth, halfHeight>>,
       <<"l", -halfWidth, -halfHeight>> >>

\* the drawing as the sequence of its commands; coordinates in units
generateRoundedRectDrawing(halfWidth, halfHeight, borderRadius) ==
    LET maxAllowedRadius == Max(Scale, Min(halfHeight, halfWidth) - Scale)
        r == IF borderRadius > 0 THEN Min(borderRadius, maxAllowedRadius) ELSE 0
    IN  IF r > 0
        THEN << <<"m", -halfWidth + r, -halfHeight>>,
                <<"l", halfWidth - r, -halfHeight>>,
                <<"b", halfWidth, -halfHeight, halfWidth, -halfHeight + r,
                       halfWidth, -halfHeight + r>>,
                <<"l", halfWidth, halfHeight - r>>,
                <<"b", halfWidth, halfHeight, halfWidth - r, halfHeight,
                       halfWidth - r, halfHeight>>,
                <<"l", -halfWidth + r, halfHeight>>,
                <<"b", -halfWidth, halfHeight, -halfWidth, halfHeight - r,
                       -halfWidth, halfHeight - r>>,
                <<"l", -halfWidth, -halfHeight + r>>,
                <<"b", -halfWidth, -halfHeight, -halfWidth + r, -halfHeight,
                       -halfWidth + r, -halfHeight>> >>
        ELSE << <<"m", -halfWidth, -halfHeight>>,
                <<"l", halfWidth, -halfHeight>>,
                <<"l", halfWidth, halfHeight>>,
                <<"l", -halfWidth, halfHeight>>,
                <<"l", -halfWidth, -halfHeight>> >>

-----------------------------------------------------------------------------
(* createRoundedAss: configuration *)

\* JavaScript's  o || d  for a string that may be undefined: '' is falsy
OrString(o, d) == IF o = <<>> \/ o[1] = "" THEN d ELSE o[1]

\* const config = { ... }; paddings, font size and alpha in pixels / 0..255
Config(o) ==
    [font         |-> OrString(o.font, "Arial"),
     fontSize     |-> OrNumber(o.fontSize, 48),
     bgAlpha      |-> OrNumber(o.opacity, 0),
     paddingX     |-> OrNumber(o.paddingX, 20),
     paddingY     |-> OrNumber(o.paddingY, 10),
     radius       |-> o.radius,
     marginBottom |-> o.marginBottom]

\* const extendedConfig = { ...config, ... }; the ratios in hundredths
ExtendedConfig(o) ==
    LET config == Config(o)
        alpha  == OrNumber(o.bgAlpha, config.bgAlpha)
    IN  [bgAlpha         |-> IF alpha = 0 THEN 80 ELSE alpha,
         paddingV        |-> config.paddingY,
         paddingH        |-> config.paddingX,
         minWidthRatio   |-> OrNumber(o.minWidthRatio, 0),
         maxWidthRatio   |-> OrNumber(o.maxWidthRatio, 100),
         fontName        |-> config.font,
         disableMinWidth |-> DefinedOr(o.disableMinWidth, TRUE),
         useAssMeasure   |-> DefinedOr(o.useAssMeasure, TRUE)]

\* (a variant of FontSize that derives the size from the video height when
\* the caller gives none)
FontSizeFromHeight(o, vHeight) ==
    IF o.fontSize # <<>> /\ o.fontSize[1] # 0 THEN o.fontSize[1] ELSE vHeight \div 20

\* const fontSize = config.fontSize || Math.floor(videoHeight / 20)
FontSize(o, vHeight) ==
    IF Config(o).fontSize # 0 THEN Config(o).fontSize ELSE vHeight \div 20

\* (a variant of JoinTexts that yields the text of the first cue only)
JoinTextsFirst(subs) == IF subs = <<>> THEN <<>> ELSE subs[1].text

\* subtitles.map(sub => sub.text).join(' ')
RECURSIVE JoinTexts(_)
JoinTexts(subs) ==
    IF subs = <<>> THEN <<>>
    ELSE IF Len(subs) = 1 THEN subs[1].text
    ELSE subs[1].text \o <<Space>> \o JoinTexts(Tail(subs))

\* (a variant of FontName that treats an explicit 'Arial' as no choice, as
\* the SRT-only predecessor of createRoundedAss did)
FontNameLegacy(o, predominantScript, plat) ==
    IF ExtendedConfig(o).fontName = "Arial"
    THEN IF predominantScript = "cjk"
         THEN IF plat = "win32" THEN "Microsoft YaHei" ELSE "Noto Sans CJK SC"
         ELSE IF predominantScript = "arabic"
         THEN IF plat = "win32" THEN "Traditional Arabic" ELSE "Noto Sans Arabic"
         ELSE IF predominantScript = "hebrew"
         THEN IF plat = "win32" THEN "David" ELSE "Noto Sans Hebrew"
         ELSE ExtendedConfig(o).fontName
    ELSE ExtendedConfig(o).fontName

\* let fontName = extendedConfig.fontName; if (!options.font) { ... }
FontName(o, predominantScript, plat) ==
    IF o.font = <<>> \/ o.font[1] = ""
    THEN IF predominantScript = "cjk"
         THEN IF plat = "win32" THEN "Microsoft YaHei" ELSE "Noto Sans CJK SC"
         ELSE IF predominantScript = "arabic"
         THEN IF plat = "win32" THEN "Traditional Arabic" ELSE "Noto Sans Arabic"
         ELSE IF predominantScript = "hebrew"
         THEN IF plat = "win32" THEN "David" ELSE "Noto Sans Hebrew"
         ELSE ExtendedConfig(o).fontName
    ELSE ExtendedConfig(o).fontName

\* the fields createAssHeader writes: fontName, fontSize and marginV of the
\* style Default, boxFontName and boxFontSize (in units) of the style Box-BG
createAssHeader(vWidth, vHeight, predominantScript, fontName, fontSize, marginBottom) ==
    [playResX    |-> vWidth,
     playResY    |-> vHeight,
     language    |-> predominantScript,
     fontName    |-> fontName,
     boxFontName |-> fontName,
     fontSize    |-> fontSize,
     marginV     |-> marginBottom,
     boxFontSize |-> Px(fontSize) \div 2]

-----------------------------------------------------------------------------
(* getVideoDimensions *)

\* Number(field): a field of the split ffprobe output is a run of digits,
\* empty, or anything else; <<>> stands for NaN
NumberOf(field) ==
    IF field.kind = "digits" THEN <<field.value>>
    ELSE IF field.kind = "empty" THEN <<0>>
    ELSE <<>>

\* const [width, height] = result.split('x').map(Number): a missing element
\* is undefined, and isNaN(undefined) holds
FieldNumber(fields, k) == IF k <= Len(fields) THEN NumberOf(fields[k]) ELSE <<>>

\* (a variant of getVideoDimensions without the isNaN test: NaN becomes 0)
getVideoDimensionsUnchecked(outcome) ==
    IF ~outcome.ok THEN <<>>
    ELSE LET width  == FieldNumber(outcome.fields, 1)
             height == FieldNumber(outcome.fields, 2)
         IN  <<[width  |-> IF width = <<>> THEN 0 ELSE width[1],
                height |-> IF height = <<>> THEN 0 ELSE height[1]]>>

\* outcome: what execSync(ffprobe ...) did: ok = FALSE when it threw, else
\* fields = the trimmed output split at 'x'.  <<>> stands for null.
getVideoDimensions(outcome) ==
    IF ~outcome.ok THEN <<>>
    ELSE LET width  == FieldNumber(outcome.fields, 1)
             height == FieldNumber(outcome.fields, 2)
         IN  IF width = <<>> \/ height = <<>>
             THEN <<>>
             ELSE <<[width |-> width[1], height |-> height[1]]>>

-----------------------------------------------------------------------------
(* measureSubtitleDimensions *)

\* reply: what the addon did: throws, or lines = its result array (pixels).
\* <<>> stands for null.
measureSubtitleDimensions(installed, reply) ==
    IF ~installed \/ reply.throws
    THEN <<>>
    ELSE <<[k \in 1..Len(reply.lines) |->
              [index  |-> k - 1,
               width  |-> reply.lines[k].width,
               height |-> reply.lines[k].height]]>>

-----------------------------------------------------------------------------
(* createRoundedAss: the body of the cue loop *)

\* (a variant of UseMeasured that stops one entry early)
UseMeasuredButLast(dims, i) == dims # <<>> /\ i < Len(dims[1]) - 1

\* subtitleDimensions && idx < subtitleDimensions.length  (i is 0-based)
UseMeasured(dims, i) == dims # <<>> /\ i < Len(dims[1])

\* boxWidth before the clamps; textWidth in units
PaddedWidth(ext, textWidth) ==
    IF ext.paddingH = 0
    THEN textWidth + Px(2)
    ELSE textWidth + (Px(ext.paddingH) * 2)

\* (a variant of ClampedWidth with the canvas limit only)
ClampedWidthCanvasOnly(ext, boxWidth, vWidth) ==
    Min(boxWidth, vWidth * ((Scale * 98) \div 100))

\* boxWidth after Math.min(.., videoWidth * 0.98), the minimum-width floor and
\* Math.min(.., maxWidth)
ClampedWidth(ext, boxWidth, vWidth) ==
    LET minWidth == IF ext.disableMinWidth THEN 0
                    ELSE vWidth * ext.minWidthRatio * (Scale \div 100)
        maxWidth == vWidth * ext.maxWidthRatio * (Scale \div 100)
        w1 == Min(boxWidth, vWidth * ((Scale * 98) \div 100))
        w2 == IF ~ext.disableMinWidth THEN Max(w1, minWidth) ELSE w1
    IN  Min(w2, maxWidth)

\* (a variant of CueBox that reads the measurement of the first line for
\* every cue)
CueBoxFirstEntry(o, dims, i, sub, fontSize, vWidth, vHeight) ==
    LET ext      == ExtendedConfig(o)
        measured == UseMeasured(dims, i)
        estimation == calculateTextDimensions(sub.text, fontSize, vWidth)
        textWidth  == IF measured THEN Px(dims[1][1].width) ELSE estimation.width
        textHeight == IF measured THEN Px(dims[1][1].height) ELSE estimation.height
        padded    == PaddedWidth(ext, textWidth)
        boxWidth  == ClampedWidth(ext, padded, vWidth)
        boxHeight == textHeight + (Px(ext.paddingV) * 2)
        halfWidth  == boxWidth \div 2
        halfHeight == boxHeight \div 2
    IN  [source      |-> IF measured THEN "measured" ELSE "estimated",
         textWidth   |-> textWidth,
         textHeight  |-> textHeight,
         paddedWidth |-> padded,
         boxWidth    |-> boxWidth,
         boxHeight   |-> boxHeight,
         halfWidth   |-> halfWidth,
         halfHeight  |-> halfHeight,
         radius      |-> determineBorderRadius(
                            IF o.radius = <<>> THEN <<>> ELSE <<Px(o.radius[1])>>,
                            halfWidth, halfHeight, vWidth, vHeight)]

\* the locals of one iteration, for the cue sub at 0-based position i
CueBox(o, dims, i, sub, fontSize, vWidth, vHeight) ==
    LET ext      == ExtendedConfig(o)
        measured == UseMeasured(dims, i)
        estimation == calculateTextDimensions(sub.text, fontSize, vWidth)
        textWidth  == IF measured THEN Px(dims[1][i + 1].width) ELSE estimation.width
        textHeight == IF measured THEN Px(dims[1][i + 1].height) ELSE estimation.height
        padded    == PaddedWidth(ext, textWidth)
        boxWidth  == ClampedWidth(ext, padded, vWidth)
        boxHeight == textHeight + (Px(ext.paddingV) * 2)
        halfWidth  == boxWidth \div 2
        halfHeight == boxHeight \div 2
    IN  [source      |-> IF measured THEN "measured" ELSE "estimated",
         textWidth   |-> textWidth,
         textHeight  |-> textHeight,
         paddedWidth |-> padded,
         boxWidth    |-> boxWidth,
         boxHeight   |-> boxHeight,
         halfWidth   |-> halfWidth,
         halfHeight  |-> halfHeight,
         radius      |-> determineBorderRadius(
                            IF o.radius = <<>> THEN <<>> ELSE <<Px(o.radius[1])>>,
                            halfWidth, halfHeight, vWidth, vHeight)]

\* n.toString(16).padStart(2, '0') for n >= 0, as its digits
RECURSIVE HexDigits(_)
HexDigits(n) == IF n < 16 THEN <<n>> ELSE HexDigits(n \div 16) \o <<n % 16>>

PadStart2(digits) == IF Len(digits) < 2 THEN <<0>> \o digits ELSE digits

\* the background event of a cue
BackgroundEvent(o, sub, box, vWidth, yPos) ==
    [layer    |-> 0,
     start    |-> formatAssTime(sub.start),
     end      |-> formatAssTime(sub.end),
     style    |-> "Box-BG",
     posX     |-> Px(vWidth) \div 2,
     posY     |-> yPos,
     alpha    |-> PadStart2(HexDigits(ExtendedConfig(o).bgAlpha)),
     drawing  |-> generateRoundedRectDrawing(box.halfWidth, box.halfHeight, box.radius),
     rtl      |-> FALSE,
     text     |-> <<>>]

\* (a variant of TextEvent that takes the direction from the predominant
\* script of the document)
TextEventPredominant(sub, vWidth, yPos) ==
    [layer    |-> 1,
     start    |-> formatAssTime(sub.start),
     end      |-> formatAssTime(sub.end),
     style    |-> "Default",
     posX     |-> Px(vWidth) \div 2,
     posY     |-> yPos,
     alpha    |-> <<>>,
     drawing  |-> <<>>,
     rtl      |-> isRtlScript(detectScript(JoinTexts(subtitles))),
     text     |-> sub.text]

\* the text event of a cue; rtl: whether the text is prefixed with the
\* override marker
TextEvent(sub, vWidth, yPos) ==
    [layer    |-> 1,
     start    |-> formatAssTime(sub.start),
     end      |-> formatAssTime(sub.end),
     style    |-> "Default",
     posX     |-> Px(vWidth) \div 2,
     posY     |-> yPos,
     alpha    |-> <<>>,
     drawing  |-> <<>>,
     rtl      |-> isRtlScript(detectScript(sub.text)),
     text     |-> sub.text]

\* (a variant of CueEvents that pushes the text event first)
CueEventsTextFirst(o, sub, box, vWidth, yPos) ==
    << TextEvent(sub, vWidth, yPos), BackgroundEvent(o, sub, box, vWidth, yPos) >>

\* events.push("Dialogue: " + bg); events.push("Dialogue: " + text)
CueEvents(o, sub, box, vWidth, yPos) ==
    << BackgroundEvent(o, sub, box, vWidth, yPos), TextEvent(sub, vWidth, yPos) >>

-----------------------------------------------------------------------------
(* Inputs of a run *)

NoOptions ==
    [font |-> <<>>, fontSize |-> <<>>, opacity |-> <<>>, bgAlpha |-> <<>>,
     paddingX |-> <<>>, paddingY |-> <<>>, radius |-> <<>>,
     marginBottom |-> <<>>, minWidthRatio |-> <<>>, maxWidthRatio |-> <<>>,
     disableMinWidth |-> <<>>, useAssMeasure |-> <<>>]

RunOptions ==
    { [NoOptions EXCEPT !.paddingX = px, !.radius = r, !.useAssMeasure = m] :
        px \in {<<>>, <<0>>, <<30>>},
        r  \in {<<>>, <<0>>, <<1000>>},
        m  \in {<<>>, <<FALSE>>} }

\* "Hi" at 0.0 - 1.0 s and "Bye\nok" at 1.05 - 2.0 s
CueChoices ==
    { [start |-> 0,    end |-> 1000, text |-> <<72, 105>>],
      [start |-> 1050, end |-> 2000, text |-> <<66, 121, 101, 10, 111, 107>>] }

CueLists(choices, maxLen) == UNION { [1..n -> choices] : n \in 0..maxLen }

RunInputs == CueLists(CueChoices, MaxCues)

Digits(n) == [kind |-> "digits", value |-> n]

EmptyField == [kind |-> "empty", value |-> 0]

OtherField == [kind |-> "other", value |-> 0]

\* ffprobe exits with an error, or prints 1280x720, nothing, N/AxN/A, 1280,
\* or 1280x
ProbeOutcomes ==
    { [ok |-> FALSE, fields |-> <<>>],
      [ok |-> TRUE,  fields |-> <<Digits(1280), Digits(720)>>],
      [ok |-> TRUE,  fields |-> <<EmptyField>>],
      [ok |-> TRUE,  fields |-> <<OtherField, OtherField>>],
      [ok |-> TRUE,  fields |-> <<Digits(1280)>>],
      [ok |-> TRUE,  fields |-> <<Digits(1280), EmptyField>>] }

\* sizes the addon reports for a line, in pixels
MeasuredSizes == { [width |-> 50, height |-> 58], [width |-> 2500, height |-> 116] }

\* the addon throws, or returns 0 .. n + 1 lines
MeasurerReplies(n) ==
    { [throws |-> TRUE, lines |-> <<>>] } \cup
    { [throws |-> FALSE, lines |-> [k \in 1..len |-> size]] :
        len \in 0..(n + 1), size \in MeasuredSizes }

-----------------------------------------------------------------------------
(* createRoundedAss: the run *)

\* the temporary directory without any temp-<t>.ass; <<>> is an absent file
NoFiles == [t \in 0..MaxClock |-> <<>>]

RunIdle ==
    /\ subtitles = <<>>
    /\ videoWidth = 0
    /\ videoHeight = 0
    /\ tempFile = FALSE
    /\ subtitleDimensions = <<>>
    /\ idx = 0
    /\ events = <<>>
    /\ boxes = <<>>
    /\ measuredCount = 0
    /\ estimatedCount = 0
    /\ output = <<>>
    /\ thrown = ""
    /\ probeLog = <<>>
    /\ measurerLog = <<>>
    /\ clock = 0
    /\ tmpdir = NoFiles
    /\ runs = <<>>

Init ==
    /\ pc = "start"
    /\ options \in RunOptions
    /\ videoPath \in {<<>>, <<"video.mp4">>}
    /\ assMeasureInstalled \in BOOLEAN
    /\ platform \in {"linux", "win32"}
    /\ parsed \in RunInputs
    /\ RunIdle
    /\ call = [fn |-> "createRoundedAss"]
    /\ result = <<>>

\* const measureDimensions = require('ass-measure') at the head of the try
\* block: a module that cannot be loaded throws, the catch logs and rethrows
RequireModules ==
    /\ pc = "start"
    /\ IF assMeasureInstalled
       THEN pc' = "parse" /\ thrown' = thrown
       ELSE pc' = "failed" /\ thrown' = "Cannot find module 'ass-measure'"
    /\ UNCHANGED <<options, videoPath, assMeasureInstalled, parsed, subtitles,
                   videoWidth, videoHeight, tempFile, subtitleDimensions, idx,
                   events, boxes, measuredCount, estimatedCount, output,
                   probeLog, measurerLog, platform, call, result,
                   clock, tmpdir, runs>>

\* (a variant of ParseFile without the test for an empty cue list)
ParseFileUnchecked ==
    /\ pc = "parse"
    /\ subtitles' = parseSubtitles(parsed)
    /\ pc' = "probe" /\ thrown' = thrown /\ videoWidth' = 1920 /\ videoHeight' = 1080
    /\ UNCHANGED <<options, videoPath, assMeasureInstalled, parsed, tempFile,
                   subtitleDimensions, idx, events, boxes, measuredCount,
                   estimatedCount, output, probeLog, measurerLog, platform,
                   call, result,
                   clock, tmpdir, runs>>

\* const subtitles = parseSubtitles(...); if (!subtitles.length) throw ...;
\* let videoWidth = 1920; let videoHeight = 1080
ParseFile ==
    /\ pc = "parse"
    /\ subtitles' = parseSubtitles(parsed)
    /\ IF Len(subtitles') = 0
       THEN /\ pc' = "failed"
            /\ thrown' = "No subtitles found"
            /\ UNCHANGED <<videoWidth, videoHeight,
                   clock, tmpdir, runs>>
       ELSE /\ pc' = "probe"
            /\ thrown' = thrown
            /\ videoWidth' = 1920
            /\ videoHeight' = 1080
    /\ UNCHANGED <<options, videoPath, assMeasureInstalled, parsed, tempFile,
                   subtitleDimensions, idx, events, boxes, measuredCount,
                   estimatedCount, output, probeLog, measurerLog, platform,
                   call, result,
                   clock, tmpdir, runs>>

\* if (videoPath) { const dimensions = await getVideoDimensions(videoPath); ... }
ProbeVideo ==
    /\ pc = "probe"
    /\ videoPath # <<>>
    /\ \E outcome \in ProbeOutcomes :
          LET dimensions == getVideoDimensions(outcome)
          IN  /\ probeLog' = Append(probeLog, outcome)
              /\ videoWidth' = IF dimensions # <<>> THEN dimensions[1].width
                               ELSE videoWidth
              /\ videoHeight' = IF dimensions # <<>> THEN dimensions[1].height
                                ELSE videoHeight
    /\ pc' = "measure"
    /\ UNCHANGED <<options, videoPath, assMeasureInstalled, parsed, subtitles,
                   tempFile, subtitleDimensions, idx, events, boxes,
                   measuredCount, estimatedCount, output, thrown, measurerLog,
                   platform, call, result,
                   clock, tmpdir, runs>>

\* no videoPath: the defaults stay
SkipProbe ==
    /\ pc = "probe"
    /\ videoPath = <<>>
    /\ pc' = "measure"
    /\ UNCHANGED <<options, videoPath, assMeasureInstalled, parsed, subtitles,
                   videoWidth, videoHeight, tempFile, subtitleDimensions, idx,
                   events, boxes, measuredCount, estimatedCount, output, thrown,
                   probeLog, measurerLog, platform, call, result,
                   clock, tmpdir, runs>>

\* const tempAssFile = createTemporaryAssFile(...)
CreateTemporaryAssFile ==
    /\ pc = "measure"
    /\ ExtendedConfig(options).useAssMeasure
    /\ tempFile' = TRUE
    /\ pc' = "measuring"
    /\ UNCHANGED <<options, videoPath, assMeasureInstalled, parsed, subtitles,
                   videoWidth, videoHeight, subtitleDimensions, idx, events,
                   boxes, measuredCount, estimatedCount, output, thrown,
                   probeLog, measurerLog, platform, call, result,
                   clock, tmpdir, runs>>

\* subtitleDimensions = measureSubtitleDimensions(tempAssFile, ...)
MeasureDimensions ==
    /\ pc = "measuring"
    /\ IF assMeasureInstalled
       THEN \E reply \in MeasurerReplies(Len(subtitles)) :
               /\ measurerLog' = Append(measurerLog, reply)
               /\ subtitleDimensions' = measureSubtitleDimensions(TRUE, reply)
       ELSE /\ measurerLog' = measurerLog
            /\ subtitleDimensions' =
                  measureSubtitleDimensions(FALSE, [throws |-> TRUE, lines |-> <<>>])
    /\ pc' = "cleanup"
    /\ UNCHANGED <<options, videoPath, assMeasureInstalled, parsed, subtitles,
                   videoWidth, videoHeight, tempFile, idx, events, boxes,
                   measuredCount, estimatedCount, output, thrown, probeLog,
                   platform, call, result,
                   clock, tmpdir, runs>>

\* (a variant of RemoveTemporaryAssFile that leaves the file in place)
KeepTemporaryAssFile ==
    /\ pc = "cleanup"
    /\ pc' = "loop"
    /\ UNCHANGED <<options, videoPath, assMeasureInstalled, parsed, subtitles,
                   videoWidth, videoHeight, tempFile, subtitleDimensions, idx,
                   events, boxes, measuredCount, estimatedCount, output, thrown,
                   probeLog, measurerLog, platform, call, result,
                   clock, tmpdir, runs>>

\* fs.removeSync(tempAssFile)
RemoveTemporaryAssFile ==
    /\ pc = "cleanup"
    /\ tempFile' = FALSE
    /\ pc' = "loop"
    /\ UNCHANGED <<options, videoPath, assMeasureInstalled, parsed, subtitles,
                   videoWidth, videoHeight, subtitleDimensions, idx, events,
                   boxes, measuredCount, estimatedCount, output, thrown,
                   probeLog, measurerLog, platform, call, result,
                   clock, tmpdir, runs>>

\* useAssMeasure is false: subtitleDimensions stays null
SkipMeasure ==
    /\ pc = "measure"
    /\ ~ExtendedConfig(options).useAssMeasure
    /\ pc' = "loop"
    /\ UNCHANGED <<options, videoPath, assMeasureInstalled, parsed, subtitles,
                   videoWidth, videoHeight, tempFile, subtitleDimensions, idx,
                   events, boxes, measuredCount, estimatedCount, output, thrown,
                   probeLog, measurerLog, platform, call, result,
                   clock, tmpdir, runs>>

\* one iteration of for (let idx = 0; idx < subtitles.length; idx++) { ... }
LoopIteration ==
    /\ pc = "loop"
    /\ idx < Len(subtitles)
    /\ LET sub  == subtitles[idx + 1]
           fontSize == FontSize(options, videoHeight)
           marginBottom == determineBottomMargin(options.marginBottom, videoHeight)
           yPos == videoHeight - marginBottom
           box  == CueBox(options, subtitleDimensions, idx, sub, fontSize,
                          videoWidth, videoHeight)
       IN  /\ boxes' = Append(boxes, box)
           /\ measuredCount' = IF box.source = "measured"
                               THEN measuredCount + 1 ELSE measuredCount
           /\ estimatedCount' = IF box.source = "measured"
                                THEN estimatedCount ELSE estimatedCount + 1
           /\ events' = events \o CueEvents(options, sub, box, videoWidth, yPos)
    /\ idx' = idx + 1
    /\ UNCHANGED <<pc, options, videoPath, assMeasureInstalled, parsed,
                   subtitles, videoWidth, videoHeight, tempFile,
                   subtitleDimensions, output, thrown, probeLog, measurerLog,
                   platform, call, result,
                   clock, tmpdir, runs>>

\* assContent += events.join('\n') + '\n'; fs.writeFileSync(outputPath, ...)
WriteOutput ==
    /\ pc = "loop"
    /\ idx = Len(subtitles)
    /\ LET predominantScript == detectScript(JoinTexts(subtitles))
           fontSize == FontSize(options, videoHeight)
           marginBottom == determineBottomMargin(options.marginBottom, videoHeight)
       IN  output' = <<[header |-> createAssHeader(videoWidth, videoHeight,
                                      predominantScript,
                                      FontName(options, predominantScript, platform),
                                      fontSize, marginBottom),
                        events |-> events]>>
    /\ pc' = "done"
    /\ UNCHANGED <<options, videoPath, assMeasureInstalled, parsed, subtitles,
                   videoWidth, videoHeight, tempFile, subtitleDimensions, idx,
                   events, boxes, measuredCount, estimatedCount, thrown,
                   probeLog, measurerLog, platform, call, result,
                   clock, tmpdir, runs>>

Next ==
    \/ RequireModules
    \/ ParseFile
    \/ ProbeVideo
    \/ SkipProbe
    \/ CreateTemporaryAssFile
    \/ MeasureDimensions
    \/ RemoveTemporaryAssFile
    \/ SkipMeasure
    \/ LoopIteration
    \/ WriteOutput

Spec == Init /\ [][Next]_vars

-----------------------------------------------------------------------------
(* parseSubtitles called on its own *)

TimeValues == { 50 * t : t \in 0..MaxTick }

\* every cue sequence of at most MaxTimingCues cues with any start and end
TimingInputs ==
    CueLists([start : TimeValues, end : TimeValues, text : {<<72, 10, 105>>}],
             MaxTimingCues)

InitTiming ==
    /\ pc = "call"
    /\ call = [fn |-> "parseSubtitles"]
    /\ result = <<>>
    /\ parsed \in TimingInputs
    /\ options = NoOptions
    /\ videoPath = <<>>
    /\ assMeasureInstalled = TRUE
    /\ platform = "linux"
    /\ RunIdle

CallParseSubtitles ==
    /\ pc = "call"
    /\ call.fn = "parseSubtitles"
    /\ subtitles' = parseSubtitles(parsed)
    /\ result' = <<subtitles'>>
    /\ pc' = "returned"
    /\ UNCHANGED <<options, videoPath, assMeasureInstalled, parsed, videoWidth,
                   videoHeight, tempFile, subtitleDimensions, idx, events, boxes,
                   measuredCount, estimatedCount, output, thrown, probeLog,
                   measurerLog, platform, call,
                   clock, tmpdir, runs>>

SpecTiming == InitTiming /\ [][CallParseSubtitles]_vars

-----------------------------------------------------------------------------
(* determineBorderRadius called on its own *)

\* requested radii, in units: undefined, negative, zero, fractions, the
\* limits of the boxes below, and far too large
RadiusRequests ==
    { <<>> } \cup
    { <<r>> : r \in { -Px(5), -(Scale \div 2), 0, Scale \div 2, Px(1), Px(2),
                      Px(19), Px(20), Px(1000) } }

\* half-dimensions, in units: 0, 1/2, 1, 3/2, 2, 5/2, 20, 40 and 400 pixels
HalfDimensions ==
    { 0, Scale \div 2, Px(1), Px(3) \div 2, Px(2), Px(5) \div 2, Px(20), Px(40),
      Px(400) }

CanvasSizes ==
    { <<1920, 1080>>, <<1280, 720>>, <<640, 360>>, <<1080, 1920>>, <<100, 50>> }

InitRadius ==
    /\ pc = "call"
    /\ call \in [fn : {"determineBorderRadius"},
                 specifiedRadius : RadiusRequests,
                 halfWidth : HalfDimensions,
                 halfHeight : HalfDimensions,
                 canvas : CanvasSizes]
    /\ result = <<>>
    /\ parsed = <<>>
    /\ options = NoOptions
    /\ videoPath = <<>>
    /\ assMeasureInstalled = TRUE
    /\ platform = "linux"
    /\ RunIdle

CallDetermineBorderRadius ==
    /\ pc = "call"
    /\ call.fn = "determineBorderRadius"
    /\ result' = <<determineBorderRadius(call.specifiedRadius, call.halfWidth,
                                         call.halfHeight, call.canvas[1],
                                         call.canvas[2])>>
    /\ pc' = "returned"
    /\ UNCHANGED <<options, videoPath, assMeasureInstalled, parsed, subtitles,
                   videoWidth, videoHeight, tempFile, subtitleDimensions, idx,
                   events, boxes, measuredCount, estimatedCount, output, thrown,
                   probeLog, measurerLog, platform, call,
                   clock, tmpdir, runs>>

SpecRadius == InitRadius /\ [][CallDetermineBorderRadius]_vars

-----------------------------------------------------------------------------
(* detectScript, formatAssTime, determineBottomMargin and                  *)
(* generateRoundedRectDrawing called on their own (SpecCalls)              *)

\* "H", and the code units at and next to the ends of the ranges detectScript
\* tests, and the first Hangul syllable
ScriptUnits ==
    { 72, 1423, 1424, 1535, 1536, 1791, 1792, 12287, 12288, 40959, 40960,
      63744, 64255, 44032 }

Texts(maxLen) == UNION { [1..n -> ScriptUnits] : n \in 0..maxLen }

\* times in ms
TimeSamples == { b + d : b \in TimeBases, d \in 0..MaxMsOffset }

\* requested margins, in pixels: undefined, zero, positive, negative
MarginRequests == { <<>>, <<0>>, <<50>>, <<-10>> }

\* radii in units: 0, 1/4, 1/2, 1, 5 and 19 pixels
DrawingRadii == { 0, Scale \div 4, Scale \div 2, Px(1), Px(5), Px(19) }

\* createRoundedAss hands generateRoundedRectDrawing the radius
\* determineBorderRadius returned, which is within the limit of the box
DrawingCalls ==
    { c \in [fn : {"generateRoundedRectDrawing"},
             halfWidth : HalfDimensions,
             halfHeight : HalfDimensions,
             borderRadius : DrawingRadii] :
        c.borderRadius <= Max(Scale, Min(c.halfHeight, c.halfWidth) - Scale) }

\* "H", backslash, "N", the braces and a carriage return
EstimateUnits == { 72, Backslash, LetterN, OpenBrace, CloseBrace, 13 }

EstimateTexts(maxLen) == UNION { [1..n -> EstimateUnits] : n \in 0..maxLen }

InitCalls ==
    /\ pc = "call"
    /\ \/ call \in [fn : {"detectScript"}, text : Texts(MaxTextLen)]
       \/ call \in [fn : {"formatAssTime"}, ms : TimeSamples]
       \/ call \in [fn : {"determineBottomMargin"},
                     specifiedMargin : MarginRequests,
                     videoHeight : 1..MaxCanvasHeight]
       \/ call \in DrawingCalls
       \/ call \in [fn : {"calculateTextDimensions"},
                     text : EstimateTexts(MaxEstimateLen),
                     fontSize : {24, 48},
                     videoWidth : {100, 1920}]
    /\ result = <<>>
    /\ parsed = <<>>
    /\ options = NoOptions
    /\ videoPath = <<>>
    /\ assMeasureInstalled = TRUE
    /\ platform = "linux"
    /\ RunIdle

CallDetectScript ==
    /\ pc = "call"
    /\ call.fn = "detectScript"
    /\ result' = <<detectScript(call.text)>>
    /\ pc' = "returned"
    /\ UNCHANGED <<options, videoPath, assMeasureInstalled, parsed, subtitles,
                   videoWidth, videoHeight, tempFile, subtitleDimensions, idx,
                   events, boxes, measuredCount, estimatedCount, output, thrown,
                   probeLog, measurerLog, platform, call,
                   clock, tmpdir, runs>>

CallFormatAssTime ==
    /\ pc = "call"
    /\ call.fn = "formatAssTime"
    /\ result' = <<formatAssTime(call.ms)>>
    /\ pc' = "returned"
    /\ UNCHANGED <<options, videoPath, assMeasureInstalled, parsed, subtitles,
                   videoWidth, videoHeight, tempFile, subtitleDimensions, idx,
                   events, boxes, measuredCount, estimatedCount, output, thrown,
                   probeLog, measurerLog, platform, call,
                   clock, tmpdir, runs>>

CallDetermineBottomMargin ==
    /\ pc = "call"
    /\ call.fn = "determineBottomMargin"
    /\ result' = <<determineBottomMargin(call.specifiedMargin, call.videoHeight)>>
    /\ pc' = "returned"
    /\ UNCHANGED <<options, videoPath, assMeasureInstalled, parsed, subtitles,
                   videoWidth, videoHeight, tempFile, subtitleDimensions, idx,
                   events, boxes, measuredCount, estimatedCount, output, thrown,
                   probeLog, measurerLog, platform, call,
                   clock, tmpdir, runs>>

CallGenerateRoundedRectDrawing ==
    /\ pc = "call"
    /\ call.fn = "generateRoundedRectDrawing"
    /\ result' = <<generateRoundedRectDrawing(call.halfWidth, call.halfHeight,
                                              call.borderRadius)>>
    /\ pc' = "returned"
    /\ UNCHANGED <<options, videoPath, assMeasureInstalled, parsed, subtitles,
                   videoWidth, videoHeight, tempFile, subtitleDimensions, idx,
                   events, boxes, measuredCount, estimatedCount, output, thrown,
                   probeLog, measurerLog, platform, call,
                   clock, tmpdir, runs>>

CallCalculateTextDimensions ==
    /\ pc = "call"
    /\ call.fn = "calculateTextDimensions"
    /\ result' = <<calculateTextDimensions(call.text, call.fontSize,
                                           call.videoWidth)>>
    /\ pc' = "returned"
    /\ UNCHANGED <<options, videoPath, assMeasureInstalled, parsed, subtitles,
                   videoWidth, videoHeight, tempFile, subtitleDimensions, idx,
                   events, boxes, measuredCount, estimatedCount, output, thrown,
                   probeLog, measurerLog, platform, call,
                   clock, tmpdir, runs>>

NextCalls ==
    \/ CallCalculateTextDimensions
    \/ CallDetectScript
    \/ CallFormatAssTime
    \/ CallDetermineBottomMargin
    \/ CallGenerateRoundedRectDrawing

SpecCalls == InitCalls /\ [][NextCalls]_vars

-----------------------------------------------------------------------------
(* Runs of createRoundedAss over cues of several scripts (SpecScript) *)

\* caller's font: none, the name that is also the default, another name;
\* and no font with the measurement switched off
FontOptions ==
    { [NoOptions EXCEPT !.font = f] :
        f \in {<<>>, <<"Arial">>, <<"Comic Sans MS">>} }
    \cup { [NoOptions EXCEPT !.useAssMeasure = <<FALSE>>] }

\* "Hi", a CJK ideograph, an Arabic letter followed by "H", a Hebrew letter,
\* and a CJK ideograph followed by an Arabic letter
ScriptCueChoices ==
    { [start |-> 0, end |-> 1000, text |-> <<72, 105>>],
      [start |-> 0, end |-> 1000, text |-> <<20013>>],
      [start |-> 0, end |-> 1000, text |-> <<1575, 72>>],
      [start |-> 0, end |-> 1000, text |-> <<1488>>],
      [start |-> 0, end |-> 1000, text |-> <<20013, 1575>>] }

InitScript ==
    /\ pc = "start"
    /\ options \in FontOptions
    /\ videoPath \in {<<>>, <<"video.mp4">>}
    /\ assMeasureInstalled = TRUE
    /\ platform \in {"linux", "win32"}
    /\ parsed \in CueLists(ScriptCueChoices, MaxCues)
    /\ RunIdle
    /\ call = [fn |-> "createRoundedAss"]
    /\ result = <<>>

SpecScript == InitScript /\ [][Next]_vars

-----------------------------------------------------------------------------
(* The body of the cue loop evaluated for one cue in each of two runs       *)
(* (SpecGeometry)                                                          *)

\* radius request and maximum width ratio: left out or given
GeometryOptions ==
    { [NoOptions EXCEPT !.radius = r, !.maxWidthRatio = hi] :
        r \in {<<>>, <<5>>}, hi \in {<<>>, <<50>>} }

\* what the measurer returned in a run: null, or one or two lines
GeometryReplies ==
    { <<>> } \cup { <<lines>> : lines \in [1..1 -> MeasuredSizes] \cup [1..2 -> MeasuredSizes] }

\* the iteration idx of a run: the cue at position idx starts at idx seconds
GeometryRuns ==
    [options : GeometryOptions,
     text : { <<72, 105>>, <<66, 121, 101, Backslash, LetterN, 111, 107>> },
     canvas : { <<1920, 1080>>, <<1280, 720>> },
     subtitleDimensions : GeometryReplies,
     idx : {0, 1}]

InitGeometry ==
    /\ pc = "call"
    /\ call \in [fn : {"loopBody"}, a : GeometryRuns, b : GeometryRuns]
    /\ result = <<>>
    /\ parsed = <<>>
    /\ options = NoOptions
    /\ videoPath = <<>>
    /\ assMeasureInstalled = TRUE
    /\ platform = "linux"
    /\ RunIdle

\* the background event the iteration run.idx of a run pushes
GeometryEvent(run) ==
    LET sub == [index |-> run.idx + 1,
                start |-> 1000 * run.idx,
                end   |-> 1000 * run.idx + 900,
                text  |-> run.text]
        vWidth   == run.canvas[1]
        vHeight  == run.canvas[2]
        fontSize == FontSize(run.options, vHeight)
        yPos     == vHeight - determineBottomMargin(run.options.marginBottom, vHeight)
        box      == CueBox(run.options, run.subtitleDimensions, run.idx, sub,
                           fontSize, vWidth, vHeight)
    IN  BackgroundEvent(run.options, sub, box, vWidth, yPos)

CallLoopBody ==
    /\ pc = "call"
    /\ call.fn = "loopBody"
    /\ result' = <<GeometryEvent(call.a), GeometryEvent(call.b)>>
    /\ pc' = "returned"
    /\ UNCHANGED <<options, videoPath, assMeasureInstalled, parsed, subtitles,
                   videoWidth, videoHeight, tempFile, subtitleDimensions, idx,
                   events, boxes, measuredCount, estimatedCount, output, thrown,
                   probeLog, measurerLog, platform, call,
                   clock, tmpdir, runs>>

SpecGeometry == InitGeometry /\ [][CallLoopBody]_vars

-----------------------------------------------------------------------------
(* The measurement steps of conversion runs in separate processes that     *)
(* share the temporary directory (SpecConcurrent)                          *)

\* the variables of the single run, which these processes do not touch
runVars ==
    <<pc, options, videoPath, assMeasureInstalled, parsed, subtitles,
      videoWidth, videoHeight, tempFile, subtitleDimensions, idx, events,
      boxes, measuredCount, estimatedCount, output, thrown, probeLog,
      measurerLog, platform, call, result>>

\* a run about to measure: tempAssFile is not yet chosen.  A document is
\* known by the run that wrote it; read = <<0>> stands for a missing file.
RunAtMeasurement ==
    [at |-> "create", tempAssFile |-> <<>>, overwrote |-> <<>>,
     read |-> <<>>, removed |-> <<>>]

InitConcurrent ==
    /\ pc = "concurrent"
    /\ options = NoOptions
    /\ videoPath = <<>>
    /\ assMeasureInstalled = TRUE
    /\ platform = "linux"
    /\ parsed = <<>>
    /\ call = [fn |-> "createRoundedAss"]
    /\ result = <<>>
    /\ subtitles = <<>>
    /\ videoWidth = 0
    /\ videoHeight = 0
    /\ tempFile = FALSE
    /\ subtitleDimensions = <<>>
    /\ idx = 0
    /\ events = <<>>
    /\ boxes = <<>>
    /\ measuredCount = 0
    /\ estimatedCount = 0
    /\ output = <<>>
    /\ thrown = ""
    /\ probeLog = <<>>
    /\ measurerLog = <<>>
    /\ clock = 0
    /\ tmpdir = NoFiles
    /\ runs = [p \in 1..NumRuns |-> RunAtMeasurement]

\* a millisecond passes
ClockTick ==
    /\ clock < MaxClock
    /\ clock' = clock + 1
    /\ UNCHANGED <<tmpdir, runs>>
    /\ UNCHANGED runVars

\* run p: tempFilePath = path.join(os.tmpdir(), `temp-${Date.now()}.ass`);
\* fs.writeFileSync(tempFilePath, assContent) creates or replaces the file
ConcurrentCreate(p) ==
    /\ runs[p].at = "create"
    /\ tmpdir' = [tmpdir EXCEPT ![clock] = <<p>>]
    /\ runs' = [runs EXCEPT ![p].at = "measure",
                            ![p].tempAssFile = <<clock>>,
                            ![p].overwrote = tmpdir[clock]]
    /\ UNCHANGED clock
    /\ UNCHANGED runVars

\* run p: measureDimensions(assFilePath, ...) reads the file now at the path
ConcurrentMeasure(p) ==
    /\ runs[p].at = "measure"
    /\ LET file == tmpdir[runs[p].tempAssFile[1]]
       IN  runs' = [runs EXCEPT ![p].at = "remove",
                                ![p].read = IF file = <<>> THEN <<0>> ELSE file]
    /\ UNCHANGED <<clock, tmpdir>>
    /\ UNCHANGED runVars

\* run p: fs.removeSync(tempAssFile) removes the file now at the path, if any
ConcurrentRemove(p) ==
    /\ runs[p].at = "remove"
    /\ tmpdir' = [tmpdir EXCEPT ![runs[p].tempAssFile[1]] = <<>>]
    /\ runs' = [runs EXCEPT ![p].at = "loop",
                            ![p].removed = tmpdir[runs[p].tempAssFile[1]]]
    /\ UNCHANGED clock
    /\ UNCHANGED runVars

NextConcurrent ==
    \/ ClockTick
    \/ \E p \in 1..NumRuns : ConcurrentCreate(p)
    \/ \E p \in 1..NumRuns : ConcurrentMeasure(p)
    \/ \E p \in 1..NumRuns : ConcurrentRemove(p)

SpecConcurrent == InitConcurrent /\ [][NextConcurrent]_vars

-----------------------------------------------------------------------------
(* Runs of createRoundedAss over the caller's style options (SpecOptions) *)

\* bottom margin and background alpha: left out, 0, and values in range
StyleOptions ==
    { [NoOptions EXCEPT !.marginBottom = mb, !.opacity = op, !.bgAlpha = a] :
        mb \in {<<>>, <<0>>, <<50>>},
        op \in {<<>>, <<0>>, <<5>>, <<128>>, <<255>>},
        a  \in {<<>>, <<200>>} }

\* values outside their range: negative paddings and radius, alpha above 255
RangeOptions ==
    { [NoOptions EXCEPT !.paddingX = px, !.paddingY = py, !.radius = r,
                        !.opacity = op] :
        px \in {<<>>, <<-30>>},
        py \in {<<>>, <<-40>>},
        r  \in {<<>>, <<-5>>},
        op \in {<<>>, <<300>>} }

\* width ratios in hundredths, and the switch of the minimum-width floor
WidthOptions ==
    { [NoOptions EXCEPT !.minWidthRatio = lo, !.maxWidthRatio = hi,
                        !.disableMinWidth = d] :
        lo \in {<<>>, <<30>>, <<60>>},
        hi \in {<<>>, <<50>>, <<90>>},
        d  \in {<<>>, <<FALSE>>, <<TRUE>>} }

\* a font size of 0 and a font size of 24
FontSizeOptions == { [NoOptions EXCEPT !.fontSize = fs] : fs \in {<<0>>, <<24>>} }

InitOptions ==
    /\ pc = "start"
    /\ options \in StyleOptions \cup RangeOptions \cup WidthOptions
                    \cup FontSizeOptions
                    \cup { [NoOptions EXCEPT !.useAssMeasure = <<FALSE>>] }
    /\ videoPath \in {<<>>, <<"video.mp4">>}
    /\ assMeasureInstalled = TRUE
    /\ platform = "linux"
    /\ parsed \in RunInputs
    /\ RunIdle
    /\ call = [fn |-> "createRoundedAss"]
    /\ result = <<>>

SpecOptions == InitOptions /\ [][Next]_vars

-----------------------------------------------------------------------------
(* Properties of parseSubtitles (SpecTiming) *)

\* C1: after parseSubtitles' timing pass, every adjacent pair of cues (in
\* original order, whatever the parsed starts and ends were) has either a gap
\* next.start - current.end of at least 0.1 s or current.end = next.start.
C1_GapOrJoined ==
    pc = "returned" =>
        \A i \in 1..(Len(subtitles) - 1) :
            \/ subtitles[i + 1].start - subtitles[i].end >= 100
            \/ subtitles[i].end = subtitles[i + 1].start

\* three cues: the first ends 0.05 s before the second starts and is joined
\* to it; the third starts before the second does, and the second is cut back
C1_Witness ==
    /\ pc = "returned"
    /\ Len(parsed) = 3
    /\ parsed[2].start - parsed[1].end = 50
    /\ subtitles[1].end = parsed[2].start
    /\ parsed[3].start < parsed[2].start
    /\ subtitles[2].end # parsed[2].end
    /\ subtitles[2].end = parsed[3].start

\* C2: every cue parseSubtitles returns has start <= end, whenever every
\* parsed cue has start <= end (later cues may start before earlier ones).
C2_StartNotAfterEnd ==
    (/\ pc = "returned"
     /\ \A k \in 1..Len(parsed) : parsed[k].start <= parsed[k].end)
    => \A k \in 1..Len(subtitles) : subtitles[k].start <= subtitles[k].end

-----------------------------------------------------------------------------
(* Properties of determineBorderRadius (SpecRadius) *)

C_MaxAllowedRadius(halfWidth, halfHeight) ==
    Max(Scale, Min(halfWidth, halfHeight) - Scale)

\* C3: whether the radius was requested or is derived, the radius
\* determineBorderRadius returns lies in 0 .. max(1, min(halfWidth,
\* halfHeight) - 1), for non-negative half-dimensions and positive canvases.
C3_RadiusWithinLimit ==
    (pc = "returned" /\ call.fn = "determineBorderRadius") =>
        /\ result[1] >= 0
        /\ result[1] <= C_MaxAllowedRadius(call.halfWidth, call.halfHeight)

\* a request of 20 for a box of half-dimensions (400, 20) is cut to 19
C3_Witness ==
    /\ pc = "returned"
    /\ call.fn = "determineBorderRadius"
    /\ call.specifiedRadius = <<Px(20)>>
    /\ call.halfWidth = Px(400)
    /\ call.halfHeight = Px(20)
    /\ result = <<Px(19)>>

\* C4: a requested radius r gives 0 when r <= 0 and otherwise
\* min(r, max(1, min(halfWidth, halfHeight) - 1)); r = 1000 with
\* half-dimensions (40, 20) gives 19.
C4_RequestedRadiusClamped ==
    (/\ pc = "returned"
     /\ call.fn = "determineBorderRadius"
     /\ call.specifiedRadius # <<>>)
    => /\ result[1] =
            IF call.specifiedRadius[1] <= 0 THEN 0
            ELSE Min(call.specifiedRadius[1],
                     C_MaxAllowedRadius(call.halfWidth, call.halfHeight))
       /\ (/\ call.specifiedRadius[1] = Px(1000)
           /\ call.halfWidth = Px(40)
           /\ call.halfHeight = Px(20)) => result[1] = Px(19)

C4_Witness ==
    /\ pc = "returned"
    /\ call.fn = "determineBorderRadius"
    /\ call.specifiedRadius = <<Px(1000)>>
    /\ call.halfWidth = Px(40)
    /\ call.halfHeight = Px(20)
    /\ result = <<Px(19)>>

-----------------------------------------------------------------------------
(* Properties of a run of createRoundedAss (Spec) *)

\* C5: with options.paddingX = 0 the box width of a cue before the clamps is
\* its text width + 2 (text width 50 gives 52).
C5_ZeroPaddingMinimalFit ==
    options.paddingX = <<0>> =>
        \A k \in 1..Len(boxes) :
            boxes[k].paddedWidth = boxes[k].textWidth + Px(2)

\* C6: when the ass-measure module cannot be loaded or the addon throws, the
\* run does not raise, every cue gets the heuristic estimate and the output
\* document is written, with useAssMeasure on or off.
C6_MeasurerFailureRecovered ==
    (/\ pc \in {"done", "failed"}
     /\ Len(parsed) > 0
     /\ \/ ~assMeasureInstalled
        \/ \E k \in 1..Len(measurerLog) : measurerLog[k].throws)
    => /\ pc = "done"
       /\ thrown = ""
       /\ output # <<>>
       /\ Len(boxes) = Len(parsed)
       /\ \A k \in 1..Len(boxes) : boxes[k].source = "estimated"

\* whether the addon returned a result list with an entry for the k-th cue
C_HasEntry(k) ==
    /\ measurerLog # <<>>
    /\ ~measurerLog[1].throws
    /\ k <= Len(measurerLog[1].lines)

\* C7: the cue at position idx gets the measured dimensions if and only if
\* the measurer returned a list with an entry at idx, and the heuristic
\* estimate otherwise; each cue is counted once, and at the end of the loop
\* measuredCount + estimatedCount is the number of cues.
C7_MeasuredIffEntry ==
    /\ Len(boxes) = idx
    /\ measuredCount + estimatedCount = idx
    /\ measuredCount = Cardinality({ k \in 1..Len(boxes) : boxes[k].source = "measured" })
    /\ pc = "done" => measuredCount + estimatedCount = Len(subtitles)
    /\ \A k \in 1..Len(boxes) :
          IF C_HasEntry(k)
          THEN /\ boxes[k].source = "measured"
               /\ boxes[k].textWidth = Px(measurerLog[1].lines[k].width)
               /\ boxes[k].textHeight = Px(measurerLog[1].lines[k].height)
          ELSE LET estimation ==
                      calculateTextDimensions(subtitles[k].text,
                          FontSize(options, videoHeight), videoWidth)
               IN  /\ boxes[k].source = "estimated"
                   /\ boxes[k].textWidth = estimation.width
                   /\ boxes[k].textHeight = estimation.height

\* a finished run of two cues, the measurer having returned one line
C7_Witness ==
    /\ pc = "done"
    /\ Len(subtitles) = 2
    /\ measurerLog # <<>>
    /\ ~measurerLog[1].throws
    /\ Len(measurerLog[1].lines) = 1
    /\ measuredCount = 1
    /\ estimatedCount = 1

\* C8: when parsing yields no cue, createRoundedAss fails with an error,
\* before ffprobe or the measurer is invoked, and the output is never written.
C8_EmptyInputFails ==
    (/\ assMeasureInstalled
     /\ Len(parsed) = 0
     /\ pc \notin {"start", "parse"})
    => /\ pc = "failed"
       /\ thrown = "No subtitles found"
       /\ probeLog = <<>>
       /\ measurerLog = <<>>
       /\ tempFile = FALSE
       /\ output = <<>>

\* an empty file, in a run that was given a video and uses the measurer
C8_Witness ==
    /\ pc = "failed"
    /\ Len(parsed) = 0
    /\ thrown = "No subtitles found"
    /\ videoPath # <<>>
    /\ ExtendedConfig(options).useAssMeasure

\* ffprobe failed: its process ended in error, or one of the two fields of
\* its output is missing or is not a number (an empty field reads as 0)
C_ProbeFailed(outcome) ==
    \/ ~outcome.ok
    \/ Len(outcome.fields) < 2
    \/ outcome.fields[1].kind = "other"
    \/ outcome.fields[2].kind = "other"

C10_EventPairs ==
    /\ Len(events) = 2 * idx
    /\ pc = "done" => /\ output[1].events = events
                      /\ Len(events) = 2 * Len(subtitles)
    /\ \A i \in 0..(idx - 1) :
          LET bg  == events[2 * i + 1]
              txt == events[2 * i + 2]
              sub == subtitles[i + 1]
          IN  /\ bg.layer = 0 /\ bg.style = "Box-BG" /\ bg.drawing # <<>>
              /\ txt.layer = 1 /\ txt.style = "Default" /\ txt.text = sub.text
              /\ \A j \in 1..Len(txt.text) : txt.text[j] # LF
              /\ bg.start = formatAssTime(sub.start)
              /\ bg.end = formatAssTime(sub.end)
              /\ txt.start = bg.start
              /\ txt.end = bg.end
              /\ txt.posX = bg.posX
              /\ txt.posY = bg.posY

\* a written document of two different cues
C10_Witness ==
    /\ pc = "done"
    /\ Len(output[1].events) = 4
    /\ output[1].events[1].start # output[1].events[3].start
    /\ output[1].events[4].text # output[1].events[2].text

-----------------------------------------------------------------------------
(* Properties of the scripts of a run (SpecScript) *)

C_DefaultFont(script, plat) ==
    CASE script = "cjk"    -> IF plat = "win32" THEN "Microsoft YaHei" ELSE "Noto Sans CJK SC"
      [] script = "arabic" -> IF plat = "win32" THEN "Traditional Arabic" ELSE "Noto Sans Arabic"
      [] script = "hebrew" -> IF plat = "win32" THEN "David" ELSE "Noto Sans Hebrew"
      [] OTHER             -> "Arial"

\* C17: a font the caller names is the font of both styles of the document,
\* whatever the predominant script (an explicit 'Arial' with CJK text stays
\* 'Arial'); without one, the font is the fixed entry of the predominant
\* script and the platform.
C17_FontChoice ==
    pc = "done" =>
        LET header == output[1].header
            wanted == IF options.font # <<>>
                      THEN options.font[1]
                      ELSE C_DefaultFont(header.language, platform)
        IN  /\ header.language = detectScript(JoinTexts(subtitles))
            /\ header.fontName = wanted
            /\ header.boxFontName = wanted

\* an explicit 'Arial' that stayed 'Arial' in a CJK document
C17_Witness ==
    /\ pc = "done"
    /\ options.font = <<"Arial">>
    /\ output[1].header.language = "cjk"
    /\ output[1].header.fontName = "Arial"
    /\ output[1].header.boxFontName = "Arial"

-----------------------------------------------------------------------------
(* Properties of the functions called on their own (SpecCalls) *)

C_Returned(fn) == pc = "returned" /\ call.fn = fn

C_Has(text, low, high) == \E k \in 1..Len(text) : text[k] >= low /\ text[k] <= high

\* a character of U+3000..U+9FFF or U+F900..U+FAFF
C_HasCjk(text) == C_Has(text, 12288, 40959) \/ C_Has(text, 63744, 64255)

\* a character of U+0600..U+06FF
C_HasArabic(text) == C_Has(text, 1536, 1791)

\* a character of U+0590..U+05FF
C_HasHebrew(text) == C_Has(text, 1424, 1535)

C13_SecondsBelowSixty ==
    C_Returned("formatAssTime") =>
        /\ result[1][1] >= 0
        /\ result[1][2] \in 0..59
        /\ result[1][3] \in 0..59
        /\ result[1][4] \in 0..99

\* C14: without a specified bottom margin, the margin for every positive
\* canvas height H lies within [60, floor(H * 0.1)], and is floor(H * 0.05)
\* clamped to that interval.
C14_MarginWithinInterval ==
    (C_Returned("determineBottomMargin") /\ call.specifiedMargin = <<>>) =>
        LET H    == call.videoHeight
            low  == 60
            high == H \div 10
            base == H \div 20
        IN  /\ result[1] >= low
            /\ result[1] <= high
            /\ (base >= low /\ base <= high) => result[1] = base

\* the point a drawing command ends at
C_End(seg) == IF seg[1] = "b" THEN <<seg[6], seg[7]>> ELSE <<seg[2], seg[3]>>

\* the corners of the box clockwise from the top right (y grows downwards)
C_Corners(hw, hh) == << <<hw, -hh>>, <<hw, hh>>, <<-hw, hh>>, <<-hw, -hh>> >>

\* p lies on the line of edge k: 1 top, 2 right, 3 bottom, 4 left
C_OnEdge(p, k, hw, hh) ==
    CASE k = 1 -> p[2] = -hh
      [] k = 2 -> p[1] = hw
      [] k = 3 -> p[2] = hh
      [] k = 4 -> p[1] = -hw

C_Dist(p, q) ==
    (IF p[1] > q[1] THEN p[1] - q[1] ELSE q[1] - p[1])
        + (IF p[2] > q[2] THEN p[2] - q[2] ELSE q[2] - p[2])

-----------------------------------------------------------------------------
(* Properties of the caller's style options (SpecOptions) *)

\* C15: a bottom margin m the caller specifies (0 included) is the margin of
\* the document: the style Default has MarginV = m and every event is
\* positioned at canvasHeight - m; specified or not, the margin is the same
\* for every cue's background and text event, canvasHeight - MarginV.
C15_MarginVerbatimAndShared ==
    /\ \A k \in 1..Len(events) : events[k].posY = events[1].posY
    /\ options.marginBottom # <<>> =>
          /\ \A k \in 1..Len(events) :
                events[k].posY = videoHeight - options.marginBottom[1]
          /\ pc = "done" => output[1].header.marginV = options.marginBottom[1]
    /\ pc = "done" =>
          \A k \in 1..Len(output[1].events) :
             output[1].events[k].posY = videoHeight - output[1].header.marginV

\* a document of two cues written with the specified margin 0
C15_Witness ==
    /\ pc = "done"
    /\ options.marginBottom = <<0>>
    /\ Len(output[1].events) = 4
    /\ output[1].header.marginV = 0
    /\ output[1].events[4].posY = videoHeight

\* the two hexadecimal digits of v in 0..255
C_TwoHexDigits(v) == <<v \div 16, v % 16>>

\* C16: an opacity v in 0..255 the caller supplies (no bgAlpha) is the alpha
\* of every background event, written as the two hexadecimal digits of v,
\* v = 0 included; with neither opacity nor bgAlpha the alpha is the default
\* of the configuration surface, 80.
C16_OpacityEmitted ==
    \A k \in 1..Len(events) :
        events[k].layer = 0 =>
            /\ (options.opacity # <<>> /\ options.bgAlpha = <<>>
                    /\ options.opacity[1] \in 0..255) =>
                  events[k].alpha = C_TwoHexDigits(options.opacity[1])
            /\ (options.opacity = <<>> /\ options.bgAlpha = <<>>) =>
                  events[k].alpha = C_TwoHexDigits(80)

C_Negative(o) == o # <<>> /\ o[1] < 0

C_OutOfRange(o) ==
    \/ C_Negative(o.paddingX)
    \/ C_Negative(o.paddingY)
    \/ C_Negative(o.radius)
    \/ (o.opacity # <<>> /\ o.opacity[1] \notin 0..255)
    \/ (o.bgAlpha # <<>> /\ o.bgAlpha[1] \notin 0..255)

\* C18: a run with an out-of-range option (negative padding or radius, alpha
\* outside 0..255) is rejected with an error before any cue geometry is
\* computed: it never reaches the cue loop, computes no box and writes no
\* output.
C18_OutOfRangeRejected ==
    C_OutOfRange(options) =>
        /\ pc \notin {"loop", "done"}
        /\ boxes = <<>>
        /\ output = <<>>

\* C19: with the minimum-width floor disabled (the default) and non-negative
\* padding, the final width of every box is at most min(0.98, maxWidthRatio)
\* of the canvas width; with the floor enabled and minWidthRatio <=
\* maxWidthRatio it is at least minWidthRatio and at most maxWidthRatio of
\* the canvas width.
C19_WidthWithinRatios ==
    \A k \in 1..Len(boxes) :
        LET lo == OrNumber(options.minWidthRatio, 0)
            hi == OrNumber(options.maxWidthRatio, 100)
            hundredth == videoWidth * (Scale \div 100)
            floorDisabled == DefinedOr(options.disableMinWidth, TRUE)
        IN  /\ (floorDisabled /\ ~C_Negative(options.paddingX)
                    /\ ~C_Negative(options.paddingY)) =>
                  boxes[k].boxWidth <= Min(98, hi) * hundredth
            /\ (~floorDisabled /\ lo <= hi) =>
                  /\ boxes[k].boxWidth >= lo * hundredth
                  /\ boxes[k].boxWidth <= hi * hundredth

\* floor disabled, maxWidthRatio 0.5: a line measured wider than the canvas
\* gets a box of half the canvas width
C19_Witness ==
    /\ pc = "done"
    /\ options.disableMinWidth = <<>>
    /\ options.maxWidthRatio = <<50>>
    /\ boxes[1].paddedWidth > Px(videoWidth)
    /\ boxes[1].boxWidth = 50 * videoWidth * (Scale \div 100)

\* the characters of text that remain when every {...} block (the shortest
\* one from each opening brace, without a line terminator inside) is removed
RECURSIVE C_WithoutBlocks(_)
C_WithoutBlocks(text) ==
    IF text = <<>> THEN <<>>
    ELSE LET closers == { k \in 2..Len(text) :
                            /\ text[1] = OpenBrace
                            /\ text[k] = CloseBrace
                            /\ \A j \in 2..(k - 1) : text[j] \notin {10, 13, 8232, 8233}
                            /\ \A j \in 2..(k - 1) : text[j] # CloseBrace }
         IN  IF closers = {}
             THEN <<text[1]>> \o C_WithoutBlocks(Tail(text))
             ELSE C_WithoutBlocks(SubSeq(text, (CHOOSE k \in closers : TRUE) + 1,
                                         Len(text)))

\* the number of \N in text, counted from the left without overlap
RECURSIVE C_Breaks(_)
C_Breaks(text) ==
    IF Len(text) < 2 THEN 0
    ELSE IF text[1] = Backslash /\ text[2] = LetterN
         THEN 1 + C_Breaks(SubSeq(text, 3, Len(text)))
         ELSE C_Breaks(Tail(text))

\* C21: the estimator returns width = min(charCount * fontSize * 0.6,
\* canvasWidth * 0.9) and height = fontSize * 1.2 * lineCount, charCount being
\* the length of the text after removing the {...} blocks and replacing each
\* \N by one space, lineCount the number of \N in the text + 1; the width
\* never exceeds 0.9 of the canvas width and one more \N adds exactly
\* fontSize * 1.2 to the height.
C21_EstimatedDimensions ==
    C_Returned("calculateTextDimensions") =>
        LET clean     == C_WithoutBlocks(call.text)
            charCount == Len(clean) - C_Breaks(clean)
            lineCount == C_Breaks(call.text) + 1
            charWidth == call.fontSize * ((Scale * 6) \div 10)
            lineHeight == call.fontSize * ((Scale * 12) \div 10)
            limit     == call.videoWidth * ((Scale * 9) \div 10)
            longer    == calculateTextDimensions(call.text \o <<Backslash, LetterN>>,
                                                 call.fontSize, call.videoWidth)
        IN  /\ result[1].width = Min(charCount * charWidth, limit)
            /\ result[1].height = lineHeight * lineCount
            /\ result[1].width <= limit
            /\ longer.height = result[1].height + lineHeight

\* "{H}" followed by a forced break on a canvas 100 wide at size 48: one
\* character (the space), two lines
C21_Witness ==
    /\ C_Returned("calculateTextDimensions")
    /\ call.text = <<OpenBrace, CloseBrace, Backslash, LetterN>>
    /\ call.fontSize = 48
    /\ call.videoWidth = 100
    /\ result[1].width = 48 * ((Scale * 6) \div 10)
    /\ result[1].height = 2 * 48 * ((Scale * 12) \div 10)

-----------------------------------------------------------------------------
(* Further properties of a run of createRoundedAss (Spec) *)

C_MeasurementEnabled == DefinedOr(options.useAssMeasure, TRUE)

\* C22: a run with exact measurement enabled that comes to the measurement
\* creates the temporary document, calls the measurer at most once, while
\* the document exists, and removes the document before the first event is
\* generated, whether the measurer returned or threw; a run with exact
\* measurement disabled never has a temporary document and never calls the
\* measurer.
C22_TemporaryDocumentLifecycle ==
    /\ []((pc \in {"loop", "done"} \/ events # <<>>) => ~tempFile)
    /\ [](Len(measurerLog) <= 1)
    /\ [](~C_MeasurementEnabled => (~tempFile /\ measurerLog = <<>>))
    /\ [][(pc = "measure" /\ pc' # pc /\ C_MeasurementEnabled) => tempFile']_vars
    /\ [][measurerLog' # measurerLog => (tempFile /\ tempFile')]_vars
    /\ [][(tempFile /\ pc' = "loop") => (~tempFile' /\ events' = <<>>)]_vars

\* the measurer was called once and threw, the document is gone and the
\* first cue's events are generated
C22_Witness ==
    /\ pc = "loop"
    /\ C_MeasurementEnabled
    /\ Len(measurerLog) = 1
    /\ measurerLog[1].throws
    /\ ~tempFile
    /\ Len(events) = 2

\* C23: without a requested radius, the radius of each box is
\* min(10 * videoScale, min(halfWidth, halfHeight) / 4) clamped to
\* [0, max(1, min(halfWidth, halfHeight) - 1)], videoScale being
\* min(canvasWidth, canvasHeight) / 1080; it is at most a quarter of the
\* smaller half-dimension.
C23_DerivedRadius ==
    options.radius = <<>> =>
        \A k \in 1..Len(boxes) :
            LET smaller == Min(boxes[k].halfWidth, boxes[k].halfHeight)
                tenVideoScale == (Min(videoWidth, videoHeight) * Scale * 10) \div 1080
                base  == Min(tenVideoScale, smaller \div 4)
                limit == Max(Scale, smaller - Scale)
            IN  /\ smaller % 4 = 0
                /\ (Min(videoWidth, videoHeight) * Scale * 10) % 1080 = 0
                /\ boxes[k].radius = Max(0, Min(base, limit))
                /\ boxes[k].radius * 4 <= smaller

\* a document whose two boxes got different derived radii
C23_Witness ==
    /\ pc = "done"
    /\ options.radius = <<>>
    /\ Len(boxes) = 2
    /\ boxes[1].radius # boxes[2].radius
    /\ boxes[1].radius > 0
    /\ boxes[2].radius > 0

-----------------------------------------------------------------------------
(* Properties of the loop body in two runs (SpecGeometry) *)

\* the measurer's result for the cue of a run: none, or <<size>>
C_Entry(run) ==
    IF run.subtitleDimensions # <<>> /\ run.idx < Len(run.subtitleDimensions[1])
    THEN <<run.subtitleDimensions[1][run.idx + 1]>>
    ELSE <<>>

\* the inputs the statement of geometry determinism names (the font name
\* acts through the measurer's result only)
C_SameNamedInputs(a, b) ==
    /\ a.text = b.text
    /\ a.options.font = b.options.font
    /\ a.options.fontSize = b.options.fontSize
    /\ a.canvas = b.canvas
    /\ a.options.paddingX = b.options.paddingX
    /\ a.options.paddingY = b.options.paddingY
    /\ a.options.radius = b.options.radius
    /\ C_Entry(a) = C_Entry(b)

C_SameWidthBounds(a, b) ==
    /\ a.options.minWidthRatio = b.options.minWidthRatio
    /\ a.options.maxWidthRatio = b.options.maxWidthRatio
    /\ a.options.disableMinWidth = b.options.disableMinWidth

\* C25 as stated: two runs with the same text, font name, font size, canvas,
\* padding and radius request and the same measurer result for the cue draw
\* the same path for it.
C25_SamePathForNamedInputs ==
    (pc = "returned" /\ call.fn = "loopBody") =>
        (C_SameNamedInputs(call.a, call.b) =>
            result[1].drawing = result[2].drawing)

\* C25 amended: two runs with the same text, font name, font size, canvas,
\* padding, radius request and width ratio bounds (minimum and maximum ratio
\* and the switch of the minimum-width floor) and the same measurer result
\* for the cue draw the same path for it, whatever the position and the
\* times of the cue and the measurer's results for other cues.
C25_SamePathForAllInputs ==
    (pc = "returned" /\ call.fn = "loopBody") =>
        ((C_SameNamedInputs(call.a, call.b) /\ C_SameWidthBounds(call.a, call.b)) =>
            result[1].drawing = result[2].drawing)

\* the same inputs at different positions and times, with different
\* measurer results for the other cue, gave the same rounded path
C25_Witness ==
    /\ pc = "returned"
    /\ call.fn = "loopBody"
    /\ C_SameNamedInputs(call.a, call.b)
    /\ C_SameWidthBounds(call.a, call.b)
    /\ call.a.idx # call.b.idx
    /\ call.a.subtitleDimensions # call.b.subtitleDimensions
    /\ C_Entry(call.a) # <<>>
    /\ result[1].start # result[2].start
    /\ Len(result[1].drawing) = 9
    /\ result[1].drawing = result[2].drawing

-----------------------------------------------------------------------------
(* Further properties of detectScript (SpecCalls) *)

\* C26: detectScript returns 'cjk' for every text with a Chinese, Japanese
\* or Korean character, a text whose only non-Latin characters are Hangul
\* syllables (U+AC00..U+D7AF) included.
C26_HangulIsCjk ==
    C_Returned("detectScript") =>
        ((C_HasCjk(call.text) \/ C_Has(call.text, 44032, 55215)) =>
            result[1] = "cjk")

-----------------------------------------------------------------------------
(* Further properties of parseSubtitles (SpecTiming) *)

\* C27: the timing pass changes end times only: the cues, their order and
\* each cue's index, start and text stay as the conversion left them, the
\* last cue keeps its end, and an end is changed only to the start of the
\* next cue and only when the gap to it is strictly below 0.1 s (a gap of
\* exactly 0.1 s leaves the end as it is).
C27_OnlyEndsOfCloseCues ==
    pc = "returned" =>
        LET before == ConvertCues(parsed)
            n      == Len(before)
        IN  /\ Len(subtitles) = n
            /\ \A k \in 1..n :
                  /\ subtitles[k].index = before[k].index
                  /\ subtitles[k].start = before[k].start
                  /\ subtitles[k].text = before[k].text
            /\ n > 0 => subtitles[n].end = before[n].end
            /\ \A k \in 1..(n - 1) :
                  subtitles[k].end # before[k].end =>
                      /\ subtitles[k].end = before[k + 1].start
                      /\ before[k + 1].start - before[k].end < 100

\* C28: the timing pass is idempotent: applied to its own output it changes
\* no cue.
C28_TimingPassIdempotent ==
    pc = "returned" => FixTiming(subtitles, 1) = subtitles

\* three cues of which the pass changed the first two ends
C28_Witness ==
    /\ pc = "returned"
    /\ Len(subtitles) = 3
    /\ subtitles[1].end # parsed[1].end
    /\ subtitles[2].end # parsed[2].end
    /\ FixTiming(subtitles, 1) = subtitles

-----------------------------------------------------------------------------
(* Further properties of the scripts of a run (SpecScript) *)

\* the script of highest priority among the scripts of the cues
C_HighestPriority(scripts) ==
    IF "cjk" \in scripts THEN "cjk"
    ELSE IF "arabic" \in scripts THEN "arabic"
    ELSE IF "hebrew" \in scripts THEN "hebrew"
    ELSE "latin"

\* C29: the predominant script of a document is the script of highest
\* priority (CJK > Arabic > Hebrew > Latin) among detectScript of its cues;
\* with a CJK character in one cue the document is 'cjk' and, without a font
\* from the caller, gets the CJK font, while every Arabic or Hebrew cue
\* still has its right-to-left marker.
C29_PredominantScript ==
    pc = "done" =>
        LET scripts == { detectScript(subtitles[k].text) : k \in 1..Len(subtitles) }
            header  == output[1].header
        IN  /\ header.language = C_HighestPriority(scripts)
            /\ ("cjk" \in scripts /\ options.font = <<>>) =>
                  header.fontName =
                      IF platform = "win32" THEN "Microsoft YaHei" ELSE "Noto Sans CJK SC"
            /\ \A k \in 1..Len(subtitles) :
                  detectScript(subtitles[k].text) \in {"arabic", "hebrew"} =>
                      output[1].events[2 * k].rtl

\* a Hebrew cue followed by a CJK cue: the document is 'cjk' with the CJK
\* font and the Hebrew cue has the marker
C29_Witness ==
    /\ pc = "done"
    /\ options.font = <<>>
    /\ platform = "linux"
    /\ Len(subtitles) = 2
    /\ subtitles[1].text = <<1488>>
    /\ subtitles[2].text = <<20013>>
    /\ output[1].header.language = "cjk"
    /\ output[1].header.fontName = "Noto Sans CJK SC"
    /\ output[1].events[2].rtl

-----------------------------------------------------------------------------
(* Properties of concurrent runs (SpecConcurrent) *)

\* C30: concurrent runs in separate processes never interfere through the
\* temporary measurement document: the measurer of a run reads the document
\* that run wrote, and no run replaces or removes the document of another
\* run, also when two runs create theirs in the same millisecond.
C30_NoInterference ==
    \A p \in 1..Len(runs) :
        /\ runs[p].read \in {<<>>, <<p>>}
        /\ runs[p].overwrote = <<>>
        /\ runs[p].removed \in {<<>>, <<p>>}

=============================================================================
